---------------------------- MODULE Spec2Model ----------------------------
(***************************************************************************)
(* Model of scripts/generate_changelog_html.py: the line scan of           *)
(* parse_changelog and the renderer (get_tags, get_title, escape_html,     *)
(* format_item, generate_release_html, generate_html).                     *)
(*                                                                         *)
(* Text is a sequence of one-character strings, so that the regular        *)
(* expressions, str.strip, str.replace and slicing of the source are       *)
(* computed character by character.  Python indices are 0-based; the       *)
(* model's are 1-based.  An optional value (None or a value) is a sequence *)
(* of length 0 or 1.  A dict is a sequence of [name, items] records in     *)
(* insertion order.                                                        *)
(***************************************************************************)
EXTENDS Integers, Sequences, FiniteSets, TLC

VARIABLES lines, i, releases, current_release, current_section, pc, html,
          release, tags, title, fragment

vars == <<lines, i, releases, current_release, current_section, pc, html,
          release, tags, title, fragment>>

parseVars == <<lines, i, releases, current_release, current_section, html>>
renderVars == <<release, tags, title, fragment>>

-----------------------------------------------------------------------------
(* Bounds of the model *)

MaxLines == 4
MaxSections == 4

-----------------------------------------------------------------------------
(* Text helpers *)

\* the grave accent, which cannot be written inside a string of this language
Grave == "GRAVE"

None == <<>>
Some(x) == <<x>>

SetMin(S) == CHOOSE x \in S : \A y \in S : x <= y
SetMax(S) == CHOOSE x \in S : \A y \in S : x >= y

Digits == {"0", "1", "2", "3", "4", "5", "6", "7", "8", "9"}
Whitespace == {" ", "\t"}

Slice(s, a, b) == SubSeq(s, a, IF b > Len(s) THEN Len(s) ELSE b)

StartsWith(s, p) == Len(s) >= Len(p) /\ SubSeq(s, 1, Len(p)) = p

StartsWithAt(s, k, p) == k + Len(p) - 1 <= Len(s) /\ SubSeq(s, k, k + Len(p) - 1) = p

Contains(s, sub) ==
    \E k \in 1..(Len(s) - Len(sub) + 1) : \A j \in 1..Len(sub) : s[k + j - 1] = sub[j]

\* index of the last character of the maximal run of characters other than
\* `stop' that starts at `from' (from - 1 when the run is empty)
RunEnd(s, from, stop) ==
    LET hits == {k \in from..Len(s) : s[k] = stop}
    IN  IF hits = {} THEN Len(s) ELSE SetMin(hits) - 1

Strip(s) ==
    LET keep == {k \in 1..Len(s) : s[k] \notin Whitespace}
    IN  IF keep = {} THEN <<>> ELSE SubSeq(s, SetMin(keep), SetMax(keep))

RECURSIVE Join(_, _)
Join(seqs, sep) ==
    IF seqs = <<>> THEN <<>>
    ELSE IF Len(seqs) = 1 THEN seqs[1]
    ELSE seqs[1] \o sep \o Join(Tail(seqs), sep)

RECURSIVE Flatten(_)
Flatten(seqs) == IF seqs = <<>> THEN <<>> ELSE seqs[1] \o Flatten(Tail(seqs))

UpperAlpha == <<"A", "B", "C", "D", "E", "F", "G", "H", "I", "J", "K", "L", "M", "N", "O", "P", "Q", "R", "S", "T", "U", "V", "W", "X", "Y", "Z">>
LowerAlpha == <<"a", "b", "c", "d", "e", "f", "g", "h", "i", "j", "k", "l", "m", "n", "o", "p", "q", "r", "s", "t", "u", "v", "w", "x", "y", "z">>

LowerOf == [c \in {UpperAlpha[k] : k \in 1..26} |->
              LowerAlpha[CHOOSE k \in 1..26 : UpperAlpha[k] = c]]

LowerChar(c) == IF c \in DOMAIN LowerOf THEN LowerOf[c] ELSE c

Lower(s) == [k \in 1..Len(s) |-> LowerChar(s[k])]

-----------------------------------------------------------------------------
(* The ordered mapping release['sections'] *)

Keys(d) == [k \in 1..Len(d) |-> d[k].name]

HasKey(d, key) == \E k \in 1..Len(d) : d[k].name = key

KeyIndex(d, key) == CHOOSE k \in 1..Len(d) : d[k].name = key

DictGet(d, key, default) == IF HasKey(d, key) THEN d[KeyIndex(d, key)].items ELSE default

\* d[key] = value: an existing key keeps its position, a new key goes last
DictSet(d, key, value) ==
    IF HasKey(d, key)
    THEN [d EXCEPT ![KeyIndex(d, key)] = [name |-> key, items |-> value]]
    ELSE Append(d, [name |-> key, items |-> value])

-----------------------------------------------------------------------------
(* parse_changelog: the line patterns *)

\* re.match(r'^## \[([^\]]+)\] - (\d{4}-\d{2}-\d{2})', line)
IsDate(d) ==
    /\ Len(d) = 10
    /\ \A k \in {1, 2, 3, 4, 6, 7, 9, 10} : d[k] \in Digits
    /\ d[5] = "-"
    /\ d[8] = "-"

ReleaseMatch(line) ==
    IF ~StartsWith(line, <<"#", "#", " ", "[">>) THEN None
    ELSE LET e == RunEnd(line, 5, "]")
         IN  IF /\ e >= 5
                /\ StartsWithAt(line, e + 1, <<"]", " ", "-", " ">>)
                /\ e + 14 <= Len(line)
                /\ IsDate(SubSeq(line, e + 5, e + 14))
             THEN Some([version |-> SubSeq(line, 5, e), date |-> SubSeq(line, e + 5, e + 14)])
             ELSE None

\* re.match(r'^### (.+)$', line), then group(1).strip()
SectionMatch(line) ==
    IF StartsWith(line, <<"#", "#", "#", " ">>) /\ Len(line) >= 5
    THEN Some(Strip(SubSeq(line, 5, Len(line))))
    ELSE None

\* line.startswith('- '); item = line[2:].strip()
IsListLine(line) == StartsWith(line, <<"-", " ">>)

ItemOf(line) == Strip(SubSeq(line, 3, Len(line)))

\* truth value of current_section: None and '' are both false
SectionTruthy(cs) == cs # None /\ cs[1] # <<>>

NewRelease(m) ==
    [version |-> m.version, date |-> m.date, title |-> <<>>, tags |-> <<>>, sections |-> <<>>]


-----------------------------------------------------------------------------
(* format_date *)

DigitVal(c) == CHOOSE n \in 0..9 : <<"0", "1", "2", "3", "4", "5", "6", "7", "8", "9">>[n + 1] = c

Num(s) == IF Len(s) = 2 THEN 10 * DigitVal(s[1]) + DigitVal(s[2])
          ELSE 1000 * DigitVal(s[1]) + 100 * DigitVal(s[2]) + 10 * DigitVal(s[3]) + DigitVal(s[4])

IsLeap(y) == (y % 4 = 0 /\ y % 100 # 0) \/ y % 400 = 0

DaysIn(y, m) == IF m = 2 THEN (IF IsLeap(y) THEN 29 ELSE 28)
                ELSE IF m \in {4, 6, 9, 11} THEN 30 ELSE 31

MonthNames == <<<<"J", "a", "n", "u", "a", "r", "y">>, <<"F", "e", "b", "r", "u", "a", "r", "y">>, <<"M", "a", "r", "c", "h">>, <<"A", "p", "r", "i", "l">>, <<"M", "a", "y">>, <<"J", "u", "n", "e">>, <<"J", "u", "l", "y">>,
                <<"A", "u", "g", "u", "s", "t">>, <<"S", "e", "p", "t", "e", "m", "b", "e", "r">>, <<"O", "c", "t", "o", "b", "e", "r">>, <<"N", "o", "v", "e", "m", "b", "e", "r">>, <<"D", "e", "c", "e", "m", "b", "e", "r">>>>

\* datetime.strptime(date_str, '%Y-%m-%d') succeeds
ValidDate(d) ==
    LET y == Num(SubSeq(d, 1, 4))
        m == Num(SubSeq(d, 6, 7))
        dd == Num(SubSeq(d, 9, 10))
    IN  IsDate(d) /\ y >= 1 /\ m \in 1..12 /\ dd >= 1 /\ dd <= DaysIn(y, m)

\* strftime('%B %d, %Y'); the bare except returns date_str.  Years below
\* 1000 print differently from platform to platform and are not used.
format_date(d) ==
    IF ValidDate(d)
    THEN MonthNames[Num(SubSeq(d, 6, 7))] \o <<" ">> \o SubSeq(d, 9, 10) \o <<",", " ">> \o SubSeq(d, 1, 4)
    ELSE d

-----------------------------------------------------------------------------
(* get_tags *)

\* repr of a str without quotes, backslashes or control characters
Repr(s) == <<"'">> \o s \o <<"'">>

ReprList(items) == <<"[">> \o Join([k \in 1..Len(items) |-> Repr(items[k])], <<",", " ">>) \o <<"]">>

\* str(sections)
StrSections(sections) ==
    <<"{">> \o Join([k \in 1..Len(sections) |->
                   Repr(sections[k].name) \o <<":", " ">> \o ReprList(sections[k].items)], <<",", " ">>) \o <<"}">>

SectionTags(sections) ==
    (IF HasKey(sections, <<"A", "d", "d", "e", "d">>) THEN <<<<"new", "New">>>> ELSE <<>>)
    \o (IF HasKey(sections, <<"C", "h", "a", "n", "g", "e", "d">>) THEN <<<<"feature", "Changed">>>> ELSE <<>>)
    \o (IF HasKey(sections, <<"F", "i", "x", "e", "d">>) THEN <<<<"fix", "Fixed">>>> ELSE <<>>)
    \o (IF HasKey(sections, <<"B", "r", "e", "a", "k", "i", "n", "g">>) \/ Contains(StrSections(sections), <<"B", "R", "E", "A", "K", "I", "N", "G">>)
        THEN <<<<"breaking", "Breaking">>>> ELSE <<>>)

TopicTags(content) ==
    IF Contains(content, <<"a", "u", "t", "h">>) THEN <<<<"feature", "Authentication">>>>
    ELSE IF Contains(content, <<"r", "e", "s", "i", "l", "i", "e", "n", "c", "e">>) \/ Contains(content, <<"c", "i", "r", "c", "u", "i", "t">>)
            \/ Contains(content, <<"r", "e", "t", "r", "y">>) THEN <<<<"feature", "Resilience">>>>
    ELSE IF Contains(content, <<"c", "q", "r", "s">>) \/ Contains(content, <<"e", "v", "e", "n", "t">>) THEN <<<<"feature", "CQRS">>>>
    ELSE IF Contains(content, <<"m", "c", "p">>) THEN <<<<"feature", "MCP">>>>
    ELSE IF Contains(content, <<"g", "r", "p", "c">>) \/ Contains(content, <<"g", "r", "a", "p", "h", "q", "l">>)
            \/ Contains(content, <<"p", "r", "o", "t", "o", "c", "o", "l">>) THEN <<<<"feature", "Multi-Protocol">>>>
    ELSE IF Contains(content, <<"s", "h", "u", "t", "d", "o", "w", "n">>) THEN <<<<"feature", "Production-Ready">>>>
    ELSE IF Contains(content, <<"s", "e", "c", "u", "r", "i", "t", "y">>) THEN <<<<"feature", "Security">>>>
    ELSE <<>>

MaxTags == 4

\* variant: the tag list is not cut
get_tags_NoLimit(rel) ==
    SectionTags(rel.sections) \o TopicTags(Lower(StrSections(rel.sections)))

get_tags(rel) ==
    Slice(SectionTags(rel.sections) \o TopicTags(Lower(StrSections(rel.sections))), 1, MaxTags)

-----------------------------------------------------------------------------
(* get_title *)

\* re.match(r'\*\*([^*]+)\*\*', item): the inner text, or None
BoldAt(s, p) ==
    IF ~StartsWithAt(s, p, <<"*", "*">>) THEN None
    ELSE LET e == RunEnd(s, p + 2, "*")
         IN  IF e >= p + 2 /\ StartsWithAt(s, e + 1, <<"*", "*">>)
             THEN Some([inner |-> SubSeq(s, p + 2, e), next |-> e + 3])
             ELSE None

TitleMax == 50

\* variant: only the first item is tried for a bold span
get_title_FirstItemOnly(rel) ==
    LET added == DictGet(rel.sections, <<"A", "d", "d", "e", "d">>, <<>>)
    IN  IF added # <<>>
        THEN IF BoldAt(added[1], 1) # None THEN BoldAt(added[1], 1)[1].inner
             ELSE IF Len(added[1]) > TitleMax
                  THEN Slice(added[1], 1, TitleMax) \o <<".", ".", ".">>
                  ELSE added[1]
        ELSE <<"V", "e", "r", "s", "i", "o", "n", " ">> \o rel.version

get_title(rel) ==
    LET added == DictGet(rel.sections, <<"A", "d", "d", "e", "d">>, <<>>)
        bold == {k \in 1..Len(added) : BoldAt(added[k], 1) # None}
    IN  IF added # <<>>
        THEN IF bold # {} THEN BoldAt(added[SetMin(bold)], 1)[1].inner
             ELSE IF Len(added[1]) > TitleMax
                  THEN Slice(added[1], 1, TitleMax) \o <<".", ".", ".">>
                  ELSE added[1]
        ELSE <<"V", "e", "r", "s", "i", "o", "n", " ">> \o rel.version

-----------------------------------------------------------------------------
(* escape_html and format_item *)

\* str.replace of one character
Replace(s, c, rep) == Flatten([k \in 1..Len(s) |-> IF s[k] = c THEN rep ELSE <<s[k]>>])

\* variant: '&' is replaced last, after '<' and '>'
escape_html_AmpLast(text) ==
    Replace(Replace(Replace(text, "<", <<"&", "l", "t", ";">>), ">", <<"&", "g", "t", ";">>), "&", <<"&", "a", "m", "p", ";">>)

escape_html(text) == Replace(Replace(Replace(text, "&", <<"&", "a", "m", "p", ";">>), "<", <<"&", "l", "t", ";">>), ">", <<"&", "g", "t", ";">>)

\* re.sub(r'\*\*([^*]+)\*\*', r'<strong>\1</strong>', item)
RECURSIVE SubBold(_, _)
SubBold(s, p) ==
    IF p > Len(s) THEN <<>>
    ELSE LET m == BoldAt(s, p)
         IN  IF m # None
             THEN <<"<", "s", "t", "r", "o", "n", "g", ">">> \o m[1].inner \o <<"<", "/", "s", "t", "r", "o", "n", "g", ">">> \o SubBold(s, m[1].next)
             ELSE <<s[p]>> \o SubBold(s, p + 1)

\* re.sub(r'G([^G]+)G', r'<code class="code-inline">\1</code>', item), G the grave accent
RECURSIVE SubCode(_, _)
SubCode(s, p) ==
    IF p > Len(s) THEN <<>>
    ELSE LET e == RunEnd(s, p + 1, Grave)
         IN  IF s[p] = Grave /\ e >= p + 1 /\ e + 1 <= Len(s)
             THEN <<"<", "c", "o", "d", "e", " ", "c", "l", "a", "s", "s", "=", "\"", "c", "o", "d", "e", "-", "i", "n", "l", "i", "n", "e", "\"", ">">> \o SubSeq(s, p + 1, e) \o <<"<", "/", "c", "o", "d", "e", ">">>
                  \o SubCode(s, e + 2)
             ELSE <<s[p]>> \o SubCode(s, p + 1)

\* re.sub(r'\[([^\]]+)\]\(([^)]+)\)', r'<a href="\2">\1</a>', item)
RECURSIVE SubLink(_, _)
SubLink(s, p) ==
    IF p > Len(s) THEN <<>>
    ELSE LET e == RunEnd(s, p + 1, "]")
             f == RunEnd(s, e + 3, ")")
         IN  IF /\ s[p] = "["
                /\ e >= p + 1
                /\ StartsWithAt(s, e + 1, <<"]", "(">>)
                /\ f >= e + 3
                /\ f + 1 <= Len(s)
             THEN <<"<", "a", " ", "h", "r", "e", "f", "=", "\"">> \o SubSeq(s, e + 3, f) \o <<"\"", ">">> \o SubSeq(s, p + 1, e) \o <<"<", "/", "a", ">">>
                  \o SubLink(s, f + 2)
             ELSE <<s[p]>> \o SubLink(s, p + 1)

format_item(item) == SubLink(SubCode(SubBold(item, 1), 1), 1)

-----------------------------------------------------------------------------
(* generate_release_html and generate_html *)

MaxItemsShown == 10
MaxReleasesShown == 15

\* one <div class="section"> block
SectionBlock(section) ==
    [section_title |-> escape_html(section.name),
     lis |-> LET shown == Slice(section.items, 1, MaxItemsShown)
             IN  [k \in 1..Len(shown) |-> format_item(shown[k])]]

\* variant: sections without items are rendered too
SectionsHtml_KeepEmpty(sections) == [k \in 1..Len(sections) |-> SectionBlock(sections[k])]

\* sections_html: empty sections are skipped, the rest keep the mapping order
RECURSIVE SectionsHtml(_)
SectionsHtml(sections) ==
    IF sections = <<>> THEN <<>>
    ELSE (IF sections[1].items = <<>> THEN <<>> ELSE <<SectionBlock(sections[1])>>)
         \o SectionsHtml(Tail(sections))

\* the fragment, by the values interpolated into the f-string
generate_release_html(rel) ==
    [version |-> rel.version,
     date |-> format_date(rel.date),
     release_title |-> escape_html(get_title(rel)),
     tags_html |-> get_tags(rel),
     sections_html |-> SectionsHtml(rel.sections)]

\* HTML_TEMPLATE: static text with '{releases_html}' in one place
HTML_TEMPLATE == <<[kind |-> "static", body |-> <<>>, text |-> "head"],
                   [kind |-> "placeholder", body |-> <<>>, text |-> "{releases_html}"],
                   [kind |-> "static", body |-> <<>>, text |-> "foot"]>>

\* HTML_TEMPLATE.replace('{releases_html}', releases_html)
TemplateReplace(template, releases_html) ==
    Flatten([k \in 1..Len(template) |->
               IF template[k].kind = "placeholder" THEN releases_html ELSE <<template[k]>>])

\* variant: every release is rendered
generate_html_NoLimit(rels) ==
    TemplateReplace(HTML_TEMPLATE,
                    [k \in 1..Len(rels) |->
                       [kind |-> "release", body |-> <<generate_release_html(rels[k])>>,
                        text |-> ""]])

generate_html(rels) ==
    LET shown == Slice(rels, 1, MaxReleasesShown)
    IN  TemplateReplace(HTML_TEMPLATE,
                        [k \in 1..Len(shown) |->
                           [kind |-> "release", body |-> <<generate_release_html(shown[k])>>,
                            text |-> ""]])

-----------------------------------------------------------------------------
(* Input documents of parse_changelog *)

LineSet ==
    { <<"#", "#", " ", "[", "1", "]", " ", "-", " ", "2", "0", "2", "5", "-", "1", "2", "-", "1", "3">>,
      <<"#", "#", " ", "[", "2", "]", " ", "-", " ", "2", "0", "2", "4", "-", "0", "2", "-", "3", "0", " ", "e", "x", "t", "r", "a">>,
      <<"#", "#", " ", "[", "3", "]", " ", "-", " ", "2", "0", "2", "5", "-", "1", "-", "1", "3">>,
      <<"#", "#", "#", " ", "A", "d", "d", "e", "d">>,
      <<"#", "#", "#", " ", " ", "F", "i", "x", "e", "d", " ">>,
      <<"#", "#", "#", " ", " ">>,
      <<"-", " ", "*", "*", "A", "u", "t", "h", "*", "*", " ", "x">>,
      <<"-", " ", " ", "b", " ", "&", " ", "c", " ">>,
      <<>> }

VersionChars == <<"0", "1", "2", "3", "4", "5", "6", "7", "8", "9", "a", "b", "c", "d", "e", "f", "g", "h">>

HeaderLine(v) == <<"#", "#", " ", "[">> \o <<v>> \o <<"]", " ", "-", " ", "2", "0", "2", "5", "-", "1", "2", "-", "1", "3">>

\* documents long enough to pass the two output limits: one release with
\* n items, then m more release headers
LongDoc(n, m) ==
    <<HeaderLine("0"), <<"#", "#", "#", " ", "A", "d", "d", "e", "d">>>>
    \o [k \in 1..n |-> <<"-", " ">> \o <<VersionChars[k]>>]
    \o [k \in 1..m |-> HeaderLine(VersionChars[k + 1])]

LongDocs ==
    {LongDoc(n, m) : n \in (MaxItemsShown - 1)..(MaxItemsShown + 2),
                     m \in (MaxReleasesShown - 2)..(MaxReleasesShown + 1)}

\* a section header repeated after another section
RepeatDoc ==
    <<<<"#", "#", " ", "[", "1", "]", " ", "-", " ", "2", "0", "2", "5", "-", "1", "2", "-", "1", "3">>, <<"#", "#", "#", " ", "A", "d", "d", "e", "d">>, <<"-", " ", "*", "*", "A", "u", "t", "h", "*", "*", " ", "x">>, <<"#", "#", "#", " ", " ", "F", "i", "x", "e", "d", " ">>, <<"#", "#", "#", " ", "A", "d", "d", "e", "d">>, <<"-", " ", " ", "b", " ", "&", " ", "c", " ">>>>

\* two releases, the second with an item before its first section
TwoReleaseDoc ==
    <<<<"#", "#", " ", "[", "1", "]", " ", "-", " ", "2", "0", "2", "5", "-", "1", "2", "-", "1", "3">>, <<"#", "#", "#", " ", "A", "d", "d", "e", "d">>, <<"-", " ", "*", "*", "A", "u", "t", "h", "*", "*", " ", "x">>, <<"#", "#", " ", "[", "2", "]", " ", "-", " ", "2", "0", "2", "4", "-", "0", "2", "-", "3", "0", " ", "e", "x", "t", "r", "a">>,
      <<"-", " ", " ", "b", " ", "&", " ", "c", " ">>, <<"#", "#", "#", " ", " ", "F", "i", "x", "e", "d", " ">>, <<"-", " ", "*", "*", "A", "u", "t", "h", "*", "*", " ", "x">>>>

\* content.split('\n') never returns an empty list
Docs == UNION {[1..n -> LineSet] : n \in 1..MaxLines} \cup LongDocs \cup {RepeatDoc, TwoReleaseDoc}

NoRelease == [version |-> <<>>, date |-> <<>>, title |-> <<>>, tags |-> <<>>, sections |-> <<>>]

NoFragment == [version |-> <<>>, date |-> <<>>, release_title |-> <<>>, tags_html |-> <<>>,
               sections_html |-> <<>>]

-----------------------------------------------------------------------------
(* parse_changelog, one action per iteration of the while loop *)

Init ==
    /\ lines \in Docs
    /\ i = 1
    /\ releases = <<>>
    /\ current_release = None
    /\ current_section = None
    /\ pc = "scan"
    /\ html = <<>>
    /\ release = NoRelease
    /\ tags = <<>>
    /\ title = <<>>
    /\ fragment = NoFragment

Scanning == pc = "scan" /\ i <= Len(lines)

\* variant: the current section survives a release header
ReleaseHeader_KeepsSection ==
    /\ Scanning
    /\ ReleaseMatch(lines[i]) # None
    /\ releases' = IF current_release # None
                   THEN Append(releases, current_release[1])
                   ELSE releases
    /\ current_release' = Some(NewRelease(ReleaseMatch(lines[i])[1]))
    /\ current_section' = current_section
    /\ i' = i + 1
    /\ UNCHANGED <<lines, pc, html, renderVars>>

\* variant: a record is appended when it is created
ReleaseHeader_AppendsNew ==
    /\ Scanning
    /\ ReleaseMatch(lines[i]) # None
    /\ releases' = Append(releases, NewRelease(ReleaseMatch(lines[i])[1]))
    /\ current_release' = Some(NewRelease(ReleaseMatch(lines[i])[1]))
    /\ current_section' = None
    /\ i' = i + 1
    /\ UNCHANGED <<lines, pc, html, renderVars>>

\* lines 24-37
ReleaseHeader ==
    /\ Scanning
    /\ ReleaseMatch(lines[i]) # None
    /\ releases' = IF current_release # None
                   THEN Append(releases, current_release[1])
                   ELSE releases
    /\ current_release' = Some(NewRelease(ReleaseMatch(lines[i])[1]))
    /\ current_section' = None
    /\ i' = i + 1
    /\ UNCHANGED <<lines, pc, html, renderVars>>

\* variant: a section seen before keeps its items (dict.setdefault)
SectionHeader_KeepsItems ==
    /\ Scanning
    /\ ReleaseMatch(lines[i]) = None
    /\ SectionMatch(lines[i]) # None
    /\ current_release # None
    /\ current_section' = SectionMatch(lines[i])
    /\ current_release' =
          IF HasKey(current_release[1].sections, SectionMatch(lines[i])[1])
          THEN current_release
          ELSE Some([current_release[1] EXCEPT
                       !.sections = DictSet(@, SectionMatch(lines[i])[1], <<>>)])
    /\ i' = i + 1
    /\ UNCHANGED <<lines, releases, pc, html, renderVars>>

\* lines 40-45
SectionHeader ==
    /\ Scanning
    /\ ReleaseMatch(lines[i]) = None
    /\ SectionMatch(lines[i]) # None
    /\ current_release # None
    /\ current_section' = SectionMatch(lines[i])
    /\ current_release' =
          Some([current_release[1] EXCEPT
                  !.sections = DictSet(@, SectionMatch(lines[i])[1], <<>>)])
    /\ i' = i + 1
    /\ UNCHANGED <<lines, releases, pc, html, renderVars>>

TakesItem ==
    /\ ReleaseMatch(lines[i]) = None
    /\ ~(SectionMatch(lines[i]) # None /\ current_release # None)
    /\ IsListLine(lines[i])
    /\ current_release # None
    /\ SectionTruthy(current_section)

\* lines 48-52; sections[current_section] of a missing key raises KeyError
ListItem ==
    /\ Scanning
    /\ TakesItem
    /\ IF HasKey(current_release[1].sections, current_section[1])
       THEN /\ current_release' =
                  Some([current_release[1] EXCEPT
                          !.sections = DictSet(@, current_section[1],
                                Append(DictGet(@, current_section[1], <<>>), ItemOf(lines[i])))])
            /\ i' = i + 1
            /\ pc' = pc
       ELSE /\ pc' = "error"
            /\ UNCHANGED <<current_release, i>>
    /\ UNCHANGED <<lines, releases, current_section, html, renderVars>>

\* line 52 alone: the line changes nothing
OtherLine ==
    /\ Scanning
    /\ ReleaseMatch(lines[i]) = None
    /\ ~(SectionMatch(lines[i]) # None /\ current_release # None)
    /\ ~TakesItem
    /\ i' = i + 1
    /\ UNCHANGED <<lines, releases, current_release, current_section, pc, html, renderVars>>

\* variant: the record open at the end of the input is not appended
Finish_DropsLast ==
    /\ pc = "scan"
    /\ i > Len(lines)
    /\ releases' = releases
    /\ pc' = "parsed"
    /\ UNCHANGED <<lines, i, current_release, current_section, html, renderVars>>

\* lines 54-57
Finish ==
    /\ pc = "scan"
    /\ i > Len(lines)
    /\ releases' = IF current_release # None
                   THEN Append(releases, current_release[1])
                   ELSE releases
    /\ pc' = "parsed"
    /\ UNCHANGED <<lines, i, current_release, current_section, html, renderVars>>

\* lines 458-459: html = generate_html(releases)
GenerateHtml ==
    /\ pc = "parsed"
    /\ html' = generate_html(releases)
    /\ pc' = "done"
    /\ UNCHANGED <<lines, i, releases, current_release, current_section, renderVars>>

Next ==
    \/ ReleaseHeader
    \/ SectionHeader
    \/ ListItem
    \/ OtherLine
    \/ Finish
    \/ GenerateHtml

Spec == Init /\ [][Next]_vars

-----------------------------------------------------------------------------
(* The renderer's functions applied to release records *)

NameSet == {<<"A", "d", "d", "e", "d">>, <<"C", "h", "a", "n", "g", "e", "d">>, <<"F", "i", "x", "e", "d">>, <<"B", "r", "e", "a", "k", "i", "n", "g">>, <<"S", "e", "c", "u", "r", "i", "t", "y">>}

LongItem(n) == [k \in 1..n |-> "x"]

AddedLists ==
    { <<>>,
      <<<<"*", "*", "A", "u", "t", "h", " ", "m", "o", "d", "u", "l", "e", "*", "*", " ", "a", "d", "d", "e", "d">>>>,
      <<<<"*", "*", "A", "&", "B", " ", "<", "c", ">", "*", "*", " ", "x">>>>,
      <<<<"p", "l", "a", "i", "n">>, <<"*", "*", "B", "o", "l", "d", "*", "*", " ", "y">>>>,
      <<<<"*", "*", "a", "*", "b", "*", "*", " ", "m", "c", "p">>>>,
      <<LongItem(TitleMax)>>,
      <<LongItem(TitleMax + 1)>>,
      <<<<"B", "R", "E", "A", "K", "I", "N", "G", " ", "[", "d", "o", "c", "]", "(", "u", ")", " ", Grave, "c", Grave>>>>,
      [k \in 1..(MaxItemsShown + 1) |-> <<VersionChars[k]>>] }

OtherLists == { <<>>, <<<<"f", "i", "x", " ", "<", "r", "e", "t", "r", "y", ">">>, <<>>>> }

ListsFor(name) == IF name = <<"A", "d", "d", "e", "d">> THEN AddedLists ELSE OtherLists

NameSeqs ==
    {ns \in UNION {[1..n -> NameSet] : n \in 0..MaxSections} :
        \A a, b \in 1..Len(ns) : a # b => ns[a] # ns[b]}

RECURSIVE Fill(_)
Fill(ns) ==
    IF ns = <<>> THEN {<<>>}
    ELSE {<<[name |-> ns[1], items |-> l]>> \o rest : l \in ListsFor(ns[1]), rest \in Fill(Tail(ns))}

RecordOf(d) ==
    [version |-> <<"1", ".", "0">>, date |-> <<"2", "0", "2", "5", "-", "1", "2", "-", "1", "3">>, title |-> <<>>, tags |-> <<>>, sections |-> d]

InitRender ==
    /\ \E ns \in NameSeqs : \E d \in Fill(ns) : release = RecordOf(d)
    /\ tags = <<>>
    /\ title = <<>>
    /\ fragment = NoFragment
    /\ pc = "start"
    /\ lines = <<>>
    /\ i = 1
    /\ releases = <<>>
    /\ current_release = None
    /\ current_section = None
    /\ html = <<>>

GetTags ==
    /\ pc = "start"
    /\ tags' = get_tags(release)
    /\ pc' = "tags"
    /\ UNCHANGED <<release, title, fragment, parseVars>>

GetTitle ==
    /\ pc = "start"
    /\ title' = get_title(release)
    /\ pc' = "title"
    /\ UNCHANGED <<release, tags, fragment, parseVars>>

\* lines 137-178, with the locals title and tags of lines 139-140
GenerateReleaseHtml ==
    /\ pc = "start"
    /\ title' = get_title(release)
    /\ tags' = get_tags(release)
    /\ fragment' = generate_release_html(release)
    /\ pc' = "rendered"
    /\ UNCHANGED <<release, parseVars>>

NextRender ==
    \/ GetTags
    \/ GetTitle
    \/ GenerateReleaseHtml

SpecRender == InitRender /\ [][NextRender]_vars

-----------------------------------------------------------------------------
(* Positions in the document, read off the lines alone *)

IsHeaderLine(line) == ReleaseMatch(line) # None

IsSectionLine(line) == ReleaseMatch(line) = None /\ SectionMatch(line) # None

HeaderIdx(upto) == {k \in 1..upto : IsHeaderLine(lines[k])}

\* the last release header before line k, 0 when there is none
LastHeader(k) == IF HeaderIdx(k - 1) = {} THEN 0 ELSE SetMax(HeaderIdx(k - 1))

\* the section headers between the last release header before line k and line k
SectionsSince(k) ==
    IF LastHeader(k) = 0 THEN {}
    ELSE {j \in (LastHeader(k) + 1)..(k - 1) : IsSectionLine(lines[j])}

HeaderLines == SelectSeq(lines, IsHeaderLine)

Range(f) == {f[k] : k \in DOMAIN f}

Finished == pc \in {"parsed", "done"}

-----------------------------------------------------------------------------
(* C1 *)

\* C1: parse_changelog raises nothing on any document and returns one
\* record per line that matches the release-header pattern, in document
\* order, each with the version and date of its own header line; without
\* such a line the result is empty.
C1_OneRecordPerHeader ==
    /\ pc # "error"
    /\ Finished =>
          /\ Len(releases) = Len(HeaderLines)
          /\ \A k \in 1..Len(releases) :
                /\ releases[k].version = ReleaseMatch(HeaderLines[k])[1].version
                /\ releases[k].date = ReleaseMatch(HeaderLines[k])[1].date

C1_Witness ==
    /\ Finished
    /\ Len(releases) = 2
    /\ releases[1].version # releases[2].version
    /\ Len(lines) > 2

-----------------------------------------------------------------------------
(* C2 *)

\* C2: a list item with no release header before it, or with no section
\* header since the last release header, changes no record; a section
\* header with no release header before it creates nothing; every release
\* header resets the current section and opens a record with no sections.
C2_StrayLinesDropped ==
    [][Scanning =>
          /\ (IsListLine(lines[i]) /\ SectionsSince(i) = {}) =>
                (releases' = releases /\ current_release' = current_release)
          /\ (IsSectionLine(lines[i]) /\ LastHeader(i) = 0) =>
                (releases' = releases /\ current_release' = None /\ current_section' = None)
          /\ IsHeaderLine(lines[i]) =>
                (current_section' = None /\ current_release'[1].sections = <<>>)]_vars

\* an item right after the second release header is in no section, while
\* the items that follow a section header are kept in both releases
C2_Witness ==
    /\ Finished
    /\ lines = TwoReleaseDoc
    /\ IsListLine(lines[5])
    /\ SectionsSince(5) = {}
    /\ releases[1].sections = <<[name |-> <<"A", "d", "d", "e", "d">>, items |-> <<<<"*", "*", "A", "u", "t", "h", "*", "*", " ", "x">>>>]>>
    /\ releases[2].sections = <<[name |-> <<"F", "i", "x", "e", "d">>, items |-> <<<<"*", "*", "A", "u", "t", "h", "*", "*", " ", "x">>>>]>>

-----------------------------------------------------------------------------
(* C3 *)

RECURSIVE IsSubsequence(_, _)
IsSubsequence(a, b) ==
    IF a = <<>> THEN TRUE
    ELSE IF b = <<>> THEN FALSE
    ELSE IF a[1] = b[1] THEN IsSubsequence(Tail(a), Tail(b))
    ELSE IsSubsequence(a, Tail(b))

KeysDistinct(d) == \A a, b \in 1..Len(d) : a # b => d[a].name # d[b].name

\* the items of the list lines after line k, up to the next section or
\* release header
RECURSIVE ItemsAfter(_)
ItemsAfter(k) ==
    IF k + 1 > Len(lines) \/ IsHeaderLine(lines[k + 1]) \/ IsSectionLine(lines[k + 1])
    THEN <<>>
    ELSE (IF IsListLine(lines[k + 1]) THEN <<ItemOf(lines[k + 1])>> ELSE <<>>)
         \o ItemsAfter(k + 1)

\* the line of the h-th release header, and the last line of its release
HeaderPos(h) == CHOOSE k \in HeaderIdx(Len(lines)) : Cardinality(HeaderIdx(k)) = h

ReleaseEnd(h) ==
    LET later == {k \in HeaderIdx(Len(lines)) : k > HeaderPos(h)}
    IN  IF later = {} THEN Len(lines) ELSE SetMin(later) - 1

Occurrences(h, name) ==
    {k \in (HeaderPos(h) + 1)..ReleaseEnd(h) :
        IsSectionLine(lines[k]) /\ SectionMatch(lines[k])[1] = name}

\* C3: a section header resets the items of its label to empty and leaves
\* the other sections alone; a label seen before keeps its place in the
\* ordering and a new label goes last; hence a returned record holds, for
\* each label, only items that followed the label's last occurrence, and
\* its labels are in order of first appearance.
C3_RepeatedHeaderResets ==
    /\ [][(Scanning /\ IsSectionLine(lines[i]) /\ current_release # None) =>
            LET name == SectionMatch(lines[i])[1]
                old == current_release[1].sections
                new == current_release'[1].sections
            IN  /\ HasKey(new, name)
                /\ DictGet(new, name, None) = <<>>
                /\ Keys(new) = IF HasKey(old, name) THEN Keys(old) ELSE Append(Keys(old), name)
                /\ \A k \in 1..Len(old) : old[k].name # name => new[k] = old[k]]_vars
    /\ [](Finished =>
            \A h \in 1..Len(releases) :
               LET d == releases[h].sections
               IN  /\ KeysDistinct(d)
                   /\ \A k \in 1..Len(d) :
                         /\ Occurrences(h, d[k].name) # {}
                         /\ IsSubsequence(d[k].items,
                                          ItemsAfter(SetMax(Occurrences(h, d[k].name))))
                   /\ \A a, b \in 1..Len(d) :
                         a < b => SetMin(Occurrences(h, d[a].name))
                                     < SetMin(Occurrences(h, d[b].name)))

\* Added, an item, Fixed, Added again, another item: Added keeps the first
\* place and only the later item
C3_Witness ==
    /\ Finished
    /\ lines = RepeatDoc
    /\ Keys(releases[1].sections) = <<<<"A", "d", "d", "e", "d">>, <<"F", "i", "x", "e", "d">>>>
    /\ releases[1].sections[1].items = <<<<"b", " ", "&", " ", "c">>>>

-----------------------------------------------------------------------------
(* C9 *)

\* the step processes a release header or the end of the input
ClosingStep == pc = "scan" /\ (i > Len(lines) \/ IsHeaderLine(lines[i]))

\* a record is open: created and not yet appended
IsOpen == pc = "scan" /\ current_release # None

\* C9: the output sequence changes only by appending the open record, and
\* does so exactly at the steps that process the next release header or
\* the end of the input, so that no appended record changes afterwards;
\* the records appended and the open one together are one per release
\* header read so far, so each record is appended exactly once.
C9_FinalizedOnceAndFrozen ==
    /\ [][/\ releases' # releases =>
                (ClosingStep /\ IsOpen /\ releases' = Append(releases, current_release[1]))
          /\ (ClosingStep /\ IsOpen) => releases' = Append(releases, current_release[1])]_vars
    /\ [](Len(releases) + (IF IsOpen THEN 1 ELSE 0)
             = Cardinality(HeaderIdx(IF i > Len(lines) THEN Len(lines) ELSE i - 1)))

\* a second record is open and has taken an item while the first, with
\* its section and item, is in the output
C9_Witness ==
    /\ IsOpen
    /\ Len(releases) = 1
    /\ releases[1].sections # <<>>
    /\ releases[1].sections[1].items # <<>>
    /\ current_release[1].sections # <<>>
    /\ current_release[1].sections[1].items # <<>>

-----------------------------------------------------------------------------
(* C10 *)

\* C10: while a record is open, every list item that follows a recognized
\* section header, before the next section or release header, is appended
\* (prefix stripped, whitespace trimmed) to the items of the section that
\* header created.
C10_ItemsFollowHeader ==
    [][(Scanning /\ IsListLine(lines[i]) /\ SectionsSince(i) # {}) =>
          LET name == SectionMatch(lines[SetMax(SectionsSince(i))])[1]
          IN  /\ current_release' # None
              /\ HasKey(current_release'[1].sections, name)
              /\ DictGet(current_release'[1].sections, name, None)
                    = Append(DictGet(current_release[1].sections, name, None),
                             ItemOf(lines[i]))]_vars

-----------------------------------------------------------------------------
(* C8 *)

Least(a, b) == IF a < b THEN a ELSE b

NonEmpty(section) == section.items # <<>>

\* the rendered releases of the page, in page order
Rendered == SelectSeq(html, LAMBDA part : part.kind = "release")

\* C8: the page is the template with its one placeholder replaced by the
\* first min(N, 15) releases in order; the block of a section with n >= 1
\* items lists its first min(n, 10) items in order and nothing else.
C8_TruncationKeepsPrefix ==
    pc = "done" =>
       /\ Len(Rendered) = Least(Len(releases), 15)
       /\ Len(html) = Len(Rendered) + 2
       /\ html[1].text = "head"
       /\ html[Len(html)].text = "foot"
       /\ \A k \in 1..Len(html) : html[k].kind # "placeholder"
       /\ \A k \in 1..Len(Rendered) :
             LET frag == Rendered[k].body[1]
                 kept == SelectSeq(releases[k].sections, NonEmpty)
             IN  /\ html[k + 1] = Rendered[k]
                 /\ frag.version = releases[k].version
                 /\ Len(frag.sections_html) = Len(kept)
                 /\ \A b \in 1..Len(kept) :
                       /\ Len(frag.sections_html[b].lis) = Least(Len(kept[b].items), 10)
                       /\ \A m \in 1..Len(frag.sections_html[b].lis) :
                             frag.sections_html[b].lis[m] = format_item(kept[b].items[m])

\* more than 15 releases, the first with more than 10 items
C8_Witness ==
    /\ pc = "done"
    /\ Len(releases) > 15
    /\ Len(Rendered) = 15
    /\ releases[1].sections # <<>>
    /\ Len(releases[1].sections[1].items) > 10
    /\ Len(Rendered[1].body[1].sections_html[1].lis) = 10

-----------------------------------------------------------------------------
(* C4 *)

SectionTagOrder == <<<<"new", "New">>, <<"feature", "Changed">>, <<"fix", "Fixed">>,
                     <<"breaking", "Breaking">>>>

\* the keyword groups of the topic tag, in priority order
TopicGroups ==
    <<[label |-> "Authentication", words |-> {<<"a", "u", "t", "h">>}],
      [label |-> "Resilience", words |-> {<<"r", "e", "s", "i", "l", "i", "e", "n", "c", "e">>, <<"c", "i", "r", "c", "u", "i", "t">>, <<"r", "e", "t", "r", "y">>}],
      [label |-> "CQRS", words |-> {<<"c", "q", "r", "s">>, <<"e", "v", "e", "n", "t">>}],
      [label |-> "MCP", words |-> {<<"m", "c", "p">>}],
      [label |-> "Multi-Protocol", words |-> {<<"g", "r", "p", "c">>, <<"g", "r", "a", "p", "h", "q", "l">>, <<"p", "r", "o", "t", "o", "c", "o", "l">>}],
      [label |-> "Production-Ready", words |-> {<<"s", "h", "u", "t", "d", "o", "w", "n">>}],
      [label |-> "Security", words |-> {<<"s", "e", "c", "u", "r", "i", "t", "y">>}]>>

TopicLabels == {TopicGroups[k].label : k \in 1..Len(TopicGroups)}

IsTopicTag(t) == t[1] = "feature" /\ t[2] \in TopicLabels

\* place of a tag in the priority order: the section tags, then the topic tag
TagRank(t) ==
    IF IsTopicTag(t) THEN 5 ELSE CHOOSE k \in 1..4 : SectionTagOrder[k] = t

\* the condition of each section tag
TagHolds(t, sections) ==
    CASE t = <<"new", "New">> -> \E k \in 1..Len(sections) : sections[k].name = <<"A", "d", "d", "e", "d">>
      [] t = <<"feature", "Changed">> -> \E k \in 1..Len(sections) : sections[k].name = <<"C", "h", "a", "n", "g", "e", "d">>
      [] t = <<"fix", "Fixed">> -> \E k \in 1..Len(sections) : sections[k].name = <<"F", "i", "x", "e", "d">>
      [] t = <<"breaking", "Breaking">> ->
            \/ \E k \in 1..Len(sections) : sections[k].name = <<"B", "r", "e", "a", "k", "i", "n", "g">>
            \/ Contains(StrSections(sections), <<"B", "R", "E", "A", "K", "I", "N", "G">>)

GroupMatches(g, sections) ==
    \E w \in TopicGroups[g].words : Contains(Lower(StrSections(sections)), w)

MatchingGroups(sections) == {g \in 1..Len(TopicGroups) : GroupMatches(g, sections)}

\* C4: get_tags returns at most 4 tags in strictly increasing priority
\* order; it holds every section tag whose condition is true and no other
\* section tag; it holds a topic tag exactly when some keyword group
\* matches and fewer than four section tags are present, and that tag is
\* the one of the first matching group.
C4_TagsPrefixOfPriority ==
    pc = "tags" =>
       LET d == release.sections
           holding == {t \in Range(SectionTagOrder) : TagHolds(t, d)}
           topics == {k \in 1..Len(tags) : IsTopicTag(tags[k])}
       IN  /\ Len(tags) <= 4
           /\ \A k \in 1..Len(tags) :
                 tags[k] \in Range(SectionTagOrder) \/ IsTopicTag(tags[k])
           /\ \A a, b \in 1..Len(tags) : a < b => TagRank(tags[a]) < TagRank(tags[b])
           /\ {tags[k] : k \in 1..Len(tags)} \cap Range(SectionTagOrder) = holding
           /\ Cardinality(topics) <= 1
           /\ topics # {} <=> (MatchingGroups(d) # {} /\ Cardinality(holding) < 4)
           /\ \A k \in topics : tags[k][2] = TopicGroups[SetMin(MatchingGroups(d))].label

\* all four section tags are present and a keyword matches: the topic tag
\* is the one left out
C4_Witness ==
    /\ pc = "tags"
    /\ tags = SectionTagOrder
    /\ MatchingGroups(release.sections) # {}

-----------------------------------------------------------------------------
(* C5 *)

SectionTagOf(name) ==
    CASE name = <<"A", "d", "d", "e", "d">> -> <<<<"new", "New">>>>
      [] name = <<"C", "h", "a", "n", "g", "e", "d">> -> <<<<"feature", "Changed">>>>
      [] name = <<"F", "i", "x", "e", "d">> -> <<<<"fix", "Fixed">>>>
      [] name = <<"B", "r", "e", "a", "k", "i", "n", "g">> -> <<<<"breaking", "Breaking">>>>
      [] OTHER -> <<>>

\* C5: a section without items still gives its tag (breaking for
\* 'Breaking', and likewise new, feature, fix), but generate_release_html
\* renders no block for it: the blocks are the sections that have items,
\* one block each, in mapping order.
C5_TagByPresenceBlockByContent ==
    pc = "rendered" =>
       LET d == release.sections
           kept == SelectSeq(d, NonEmpty)
       IN  /\ \A k \in 1..Len(d) :
                 d[k].items = <<>> =>
                    /\ Range(SectionTagOf(d[k].name)) \subseteq Range(tags)
                    /\ Range(SectionTagOf(d[k].name)) \subseteq Range(fragment.tags_html)
           /\ Len(fragment.sections_html) = Len(kept)
           /\ \A b \in 1..Len(kept) :
                 fragment.sections_html[b].section_title = escape_html(kept[b].name)

\* 'Breaking' without items beside a section with items
C5_Witness ==
    /\ pc = "rendered"
    /\ \E k \in 1..Len(release.sections) :
          release.sections[k].name = <<"B", "r", "e", "a", "k", "i", "n", "g">> /\ release.sections[k].items = <<>>
    /\ <<"breaking", "Breaking">> \in Range(tags)
    /\ Len(fragment.sections_html) = 1
    /\ Len(release.sections) = 3

-----------------------------------------------------------------------------
(* C6 *)

\* item begins with a bold span whose inner text is t
BeginsBold(item, t) ==
    /\ Len(t) >= 1
    /\ Len(item) >= Len(t) + 4
    /\ item[1] = "*"
    /\ item[2] = "*"
    /\ \A k \in 1..Len(t) : item[k + 2] = t[k] /\ t[k] # "*"
    /\ item[Len(t) + 3] = "*"
    /\ item[Len(t) + 4] = "*"

\* the inner text of the bold span item begins with, None without one
BoldInner(item) ==
    LET n == {m \in 1..(Len(item) - 4) : BeginsBold(item, SubSeq(item, 3, m + 2))}
    IN  IF n = {} THEN None ELSE Some(SubSeq(item, 3, SetMin(n) + 2))

AddedItems(d) ==
    IF \E k \in 1..Len(d) : d[k].name = <<"A", "d", "d", "e", "d">>
    THEN d[CHOOSE k \in 1..Len(d) : d[k].name = <<"A", "d", "d", "e", "d">>].items
    ELSE <<>>

\* C6: with a non-empty 'Added' section, the title is the inner text of
\* the bold span of the first item that begins with one; without such an
\* item it is the first item, cut to 50 characters plus '...' when longer;
\* without 'Added' or with an empty one it is 'Version ' and the version.
C6_TitleRules ==
    pc = "title" =>
       LET added == AddedItems(release.sections)
           bold == {k \in 1..Len(added) : BoldInner(added[k]) # None}
       IN  IF added = <<>> THEN title = <<"V", "e", "r", "s", "i", "o", "n", " ">> \o release.version
           ELSE IF bold # {} THEN title = BoldInner(added[SetMin(bold)])[1]
           ELSE IF Len(added[1]) <= 50 THEN title = added[1]
           ELSE title = SubSeq(added[1], 1, 50) \o <<".", ".", ".">>

\* the bold span is in the second item, not the first
C6_Witness ==
    /\ pc = "title"
    /\ Len(AddedItems(release.sections)) = 2
    /\ BoldInner(AddedItems(release.sections)[1]) = None
    /\ BoldInner(AddedItems(release.sections)[2]) # None
    /\ title = BoldInner(AddedItems(release.sections)[2])[1]
    /\ Len(release.sections) > 1

-----------------------------------------------------------------------------
(* C7 *)

\* the record has the one section 'Added' with one item, which begins with
\* a bold span
OnlyBoldAdded ==
    /\ Len(release.sections) = 1
    /\ release.sections[1].name = <<"A", "d", "d", "e", "d">>
    /\ Len(release.sections[1].items) = 1
    /\ BoldInner(release.sections[1].items[1]) # None

Entity(c) ==
    CASE c = "&" -> <<"&", "a", "m", "p", ";">>
      [] c = "<" -> <<"&", "l", "t", ";">>
      [] c = ">" -> <<"&", "g", "t", ";">>
      [] OTHER -> <<c>>

\* C7 as stated: the release title of the fragment is the inner text of
\* the bold span, character for character, for every inner text.
C7_TitleRoundTrip ==
    (pc = "rendered" /\ OnlyBoldAdded) =>
       fragment.release_title = BoldInner(release.sections[1].items[1])[1]

\* C7, amended: the release title of the fragment is the inner text of the
\* bold span with each '&', '<' and '>' replaced by its entity (&amp;, &lt;,
\* &gt;); it is the inner text itself exactly when that text has none of
\* the three characters.
C7_TitleRoundTripEscaped ==
    (pc = "rendered" /\ OnlyBoldAdded) =>
       LET t == BoldInner(release.sections[1].items[1])[1]
       IN  /\ fragment.release_title = Flatten([k \in 1..Len(t) |-> Entity(t[k])])
           /\ fragment.release_title = t <=> Range(t) \cap {"&", "<", ">"} = {}

\* an inner text with '&' and '<'
C7_Witness ==
    /\ pc = "rendered"
    /\ OnlyBoldAdded
    /\ {"&", "<"} \subseteq Range(BoldInner(release.sections[1].items[1])[1])
    /\ fragment.release_title # title

=============================================================================
